---- MODULE Spec2Model ----
(***************************************************************************)
(* Theia: the download orchestration of TheiaAPI (src/theia/api.py).       *)
(*                                                                         *)
(* download_scene asks the service for download options, submits a batch  *)
(* to download-request, polls download-retrieve while downloads are being *)
(* prepared, starts one thread per resolved download and joins the        *)
(* threads of the client before it returns.  Every thread runs            *)
(* _download_file under the module-level semaphore _sema.                  *)
(*                                                                         *)
(* One caller thread per element of Calls invokes download_scene once.    *)
(* The remote service and the file servers are the environment: what they *)
(* answer is chosen with \E.  The entries of a download-retrieve response  *)
(* are chosen when the for loop reads them, which yields the same runs as *)
(* choosing the whole response when it arrives.                            *)
(***************************************************************************)
EXTENDS Integers, Sequences, FiniteSets, TLC

\* src/theia/api.py:46
MAX_THREADS == 5

\* The caller threads, each making one download_scene call.
Calls == {"A", "B"}
\* The TheiaAPI objects of the process.
Clients == {"api1", "api2"}

\* Bounds of the model.
MaxProducts == 2      \* products in a download-options response
MaxEntries == 2       \* entries in one sequence of a download-retrieve response
MaxDispatch == 3      \* threads started while download_scene calls are followed
MaxThreads == 6       \* threads started when the fetch pool is followed alone

VARIABLES
    scope,            \* what this run covers: the callers and the sizes of the answers
    sema,             \* the counter of _sema
    workers,          \* the threads started by _run_download, in start order
    response,         \* response[w]: what the GET of thread w gave, while it is used
    threads,          \* threads[a]: the list _threads of client a (thread indices)
    clientOf,         \* clientOf[c]: the client on which c calls download_scene
    pc,               \* pc[c]: where caller c is in download_scene
    tx,               \* tx[c]: where c is inside _send_request_to_USGS
    codes,            \* codes[c]: errorCode of every POST of the current transport call
    err,              \* err[c]: the exception download_scene last saw
    payload,          \* payload[c]: the payload handed to the current transport call
    label,            \* label[c]: the local label of download_scene
    download_options, \* download_options[c]: data of the download-options response
    downloads,        \* downloads[c]: the local downloads of download_scene
    request_results,  \* request_results[c]: data of the download-request response
    download_ids,     \* download_ids[c]: the local download_ids of _manage_downloads
    seen,             \* seen[c]: entries the running for loop has read
    slept,            \* slept[c]: seconds c spent in time.sleep(30)
    jx,               \* jx[c]: index of the list iterator of the join loop
    jt,               \* jt[c]: the thread c is joining, 0 when none
    environ,          \* os.environ: the variables USERNAME and PASSWORD
    args,             \* the arguments of the last call made by the user's script
    result,           \* what that call returned or raised
    loggedIn,         \* _loggedIn of the client
    session,          \* the X-Auth-Token header of _session, NoToken when it has none
    logout_timer,     \* the state of the Timer in _logout_timer
    todo,             \* todo[t]: the statements thread t still has to run in its call
    login_data,       \* login_data[t]: data of the login response t has received
    call,             \* call[t]: the method t is running and _loggedIn when it began
    ended,            \* ended[t]: how the call of t ended, "no" while it runs
    posted,           \* posted[t]: the requests t has sent during its call
    client            \* where the client is in its life: new, ready, ...

vars == <<scope, sema, workers, response, threads, clientOf, pc, tx, codes, err, payload,
          label, download_options, downloads, request_results, download_ids, seen, slept,
          jx, jt, environ, args, result, loggedIn, session, logout_timer, todo,
          login_data, call, ended, posted, client>>

authVars ==
    <<loggedIn, session, logout_timer, todo, login_data, call, ended, posted, client>>

callVars == <<pc, tx, codes, err, payload, label, download_options, downloads,
              request_results, download_ids, seen, slept, jx, jt>>

-----------------------------------------------------------------------------
(* Values *)

None == "None"

\* str(x) of a download id: a string, never equal to the id itself.
Str(n) == <<"str", n>>

\* The errorCode values of a response; None is a null code.  The last three
\* are codes the match statement has no case for.
ErrorCodes ==
    {None, "AUTH_INVALID", "AUTH_KEY_INVALID", "AUTH_UNAUTHORIZED",
     "RATE_LIMIT", "DATASET_AUTH", "SERVER_ERROR", "rate_limit", ""}

\* What the GET of a file and the write that follows can do.
Transfers == {"ok", "get_raises", "no_header", "bad_header", "write_raises"}

\* A payload as the transport sees it: a str or not, and the label in it.
StrPayload(l) == [isStr |-> TRUE, label |-> l]
DictPayload(l) == [isStr |-> FALSE, label |-> l]
\* No label: the payload of download-options has none.
NoLabel == <<"label", -1>>
NoPayload == [isStr |-> TRUE, label |-> NoLabel]

\* datetime.now().strftime("%Y%m%d_%H%M%S") at t seconds after the call began.
Strftime(t) == <<"label", t>>

\* An argument left out of a call, a variable that is not set.
Absent == "Absent"

\* bool(v): None, "" and [] are false.
Truthy(v) == v \notin {Absent, None, "Empty"}

\* What a call of the user's script gave: a value, or an exception.
Returned(v) == [raised |-> None, value |-> v]
Raised(e) == [raised |-> e, value |-> None]
NoCall == [fn |-> None]

\* The threads that use the session of a client: the thread of the user's
\* script and the thread of the logout timer.
AuthThreads == {"main", "timer"}

\* The tokens a login response can carry, and a session without the header.
Tokens == {"tok1", "tok2"}
NoToken == "NoToken"

\* The statements of login, of logout, and of the methods that call them.
LoginSteps == <<"login_test", "login_post", "login_token", "login_flag">>
LogoutSteps == <<"logout_post", "logout_session", "logout_flag">>
InitSteps == <<"timer_start">> \o LoginSteps
DelSteps == <<"timer_stop">> \o LogoutSteps
ResetSteps == LogoutSteps \o <<"timer_start">> \o LoginSteps

NoResults ==
    [newRecords |-> {}, duplicateProducts |-> {}, failed |-> <<>>,
     preparingDownloads |-> FALSE, availableDownloads |-> <<>>]

-----------------------------------------------------------------------------
(* The remote service *)

\* The ascending sequence of the elements of a set of integers.
RECURSIVE Ascending(_)
Ascending(S) ==
    IF S = {} THEN <<>>
    ELSE LET m == CHOOSE x \in S : \A y \in S : x <= y
         IN  <<m>> \o Ascending(S \ {m})

\* data of a download-options response: product i of n, available or not.
OptionResponses(max) ==
    UNION {
        { [i \in 1..n |->
              [entityId |-> <<"e", i>>, id |-> <<"p", i>>, available |-> av[i]]]
          : av \in [1..n -> BOOLEAN] }
        : n \in 0..max }

\* data of a download-request response for k candidates.  The service gives
\* candidate i the download id i and puts it in exactly one of newRecords,
\* duplicateProducts and failed.  With nothing in preparation every id that
\* did not fail is in availableDownloads; availableDownloads is not read when
\* downloads are in preparation and is left empty then.
RequestResponse(k, fate, prep) ==
    LET live == Ascending({j \in 1..k : fate[j] # "failed"})
    IN  [newRecords |-> {Str(j) : j \in {i \in 1..k : fate[i] = "new"}},
         duplicateProducts |-> {Str(j) : j \in {i \in 1..k : fate[i] = "dup"}},
         failed |-> Ascending({j \in 1..k : fate[j] = "failed"}),
         preparingDownloads |-> prep,
         availableDownloads |->
             IF prep THEN <<>>
             ELSE [i \in 1..Len(live) |-> [downloadId |-> live[i], url |-> live[i]]]]

RequestResponses(k) ==
    { RequestResponse(k, fp[1], fp[2]) :
        fp \in { x \in [1..k -> {"new", "dup", "failed"}] \X BOOLEAN :
                   x[2] => \E j \in 1..k : x[1][j] # "failed" } }

\* The download ids an entry of a download-retrieve response can carry.
EntryIds(max) == 1..max

-----------------------------------------------------------------------------
(* Pure parts of the code *)

\* Mutant: the default case tests the truth of the code, not "is not None".
CheckExceptions_FalsyIsNull(code) ==
    CASE code \in {"AUTH_INVALID", "AUTH_KEY_INVALID"} -> "USGSAuthenticationError"
      [] code = "AUTH_UNAUTHORIZED" -> "USGSUnauthorizedError"
      [] code = "RATE_LIMIT" -> "USGSRateLimitError"
      [] code = "DATASET_AUTH" -> "USGSDatasetAuthError"
      [] OTHER -> IF code \notin {None, ""} THEN "USGSError" ELSE None

\* _check_exceptions: the exception raised for an errorCode, None for none.
CheckExceptions(code) ==
    CASE code \in {"AUTH_INVALID", "AUTH_KEY_INVALID"} -> "USGSAuthenticationError"
      [] code = "AUTH_UNAUTHORIZED" -> "USGSUnauthorizedError"
      [] code = "RATE_LIMIT" -> "USGSRateLimitError"
      [] code = "DATASET_AUTH" -> "USGSDatasetAuthError"
      [] OTHER -> IF code # None THEN "USGSError" ELSE None

\* Mutant: the except clause catches every exception of _check_exceptions.
OnFirst_CatchesAll(e) == IF e = None THEN "ok" ELSE "retry"

\* The try block of _send_request_to_USGS after its POST: e is what
\* _check_exceptions raised.  USGSRateLimitError is caught, the rest leaves.
OnFirst(e) ==
    IF e = None THEN "ok"
    ELSE IF e = "USGSRateLimitError" THEN "retry" ELSE "raise"

\* Mutant: the except block retries a rate-limited request again.
OnSecond_RetriesAgain(e) == OnFirst(e)

\* The except block after its POST: nothing is caught there.
OnSecond(e) == IF e = None THEN "ok" ELSE "raise"

\* Mutant: the candidates are collected in reverse order.
RECURSIVE Candidates_Reversed(_)
Candidates_Reversed(options) ==
    IF options = <<>> THEN <<>>
    ELSE LET product == Head(options)
         IN  Candidates_Reversed(Tail(options))
             \o (IF product.available
                 THEN <<[entityId |-> product.entityId, productId |-> product.id]>>
                 ELSE <<>>)

\* Mutant: the comprehension has no "if product[\"available\"]".
RECURSIVE Candidates_IgnoresFlag(_)
Candidates_IgnoresFlag(options) ==
    IF options = <<>> THEN <<>>
    ELSE LET product == Head(options)
         IN  <<[entityId |-> product.entityId, productId |-> product.id]>>
             \o Candidates_IgnoresFlag(Tail(options))

\* The list comprehension of download_scene over the download options.
RECURSIVE Candidates(_)
Candidates(options) ==
    IF options = <<>> THEN <<>>
    ELSE LET product == Head(options)
         IN  (IF product.available
              THEN <<[entityId |-> product.entityId, productId |-> product.id]>>
              ELSE <<>>) \o Candidates(Tail(options))

\* Mutant: download-retrieve is polled whatever preparingDownloads says.
UsePolling_Always(rr) == TRUE

\* if request_results.get("preparingDownloads")
UsePolling(rr) == rr.preparingDownloads

\* Mutant: every entry of a download-retrieve response is dispatched.
Wanted_Any(rr, d) == TRUE

\* The test of _manage_downloads on an entry of a download-retrieve response.
Wanted(rr, d) == Str(d) \in rr.newRecords \/ Str(d) \in rr.duplicateProducts

\* Mutant: the loop waits for the failed downloads too.
LoopCond_CountsFailed(ids, count, rr) == Len(ids) < count

\* Mutant: the loop goes on while the count is not above the target.
LoopCond_AtMost(ids, count, rr) == Len(ids) <= count - Len(rr.failed)

\* The condition of the while loop of _manage_downloads.
LoopCond(ids, count, rr) == Len(ids) < count - Len(rr.failed)

\* Mutant: the header is read with headers["content-disposition"], which
\* raises KeyError when it is absent.
Outcome_HeaderRequired(t) ==
    CASE t = "ok" -> "written"
      [] OTHER -> "failed"

\* What the try/except of _download_file leaves behind for a transfer.
Outcome(t) ==
    CASE t = "ok" -> "written"
      [] t = "no_header" -> "skipped"
      [] OTHER -> "failed"

\* Mutant: _sema is released at the end of the try block, not in finally.
ReleaseCount_NoFinally(t) == IF Outcome(t) = "failed" THEN 0 ELSE 1

\* Mutant: _sema is released after the file is written, inside the with block.
ReleaseCount_AfterWrite(t) == IF Outcome(t) = "written" THEN 1 ELSE 0

\* How often _download_file releases _sema for a transfer: once, in finally.
ReleaseCount(t) == 1

-----------------------------------------------------------------------------
(* State *)

\* A run that follows the download_scene call of one caller.
OneCall ==
    [callers |-> {"A"}, codes |-> ErrorCodes, products |-> MaxProducts,
     entries |-> MaxEntries, threads |-> MaxDispatch]

\* A run that follows two callers at once, with a service that answers one
\* product and one entry at most and no error code but RATE_LIMIT.
TwoCalls ==
    [callers |-> Calls, codes |-> {None, "RATE_LIMIT"}, products |-> 1,
     entries |-> 1, threads |-> MaxDispatch]

\* A run that follows the fetch pool: any caller may call _run_download.
PoolOnly ==
    [callers |-> {}, codes |-> ErrorCodes, products |-> 1,
     entries |-> MaxEntries, threads |-> MaxThreads]

\* A run that follows the calls of a script, with no download under way.
LibOnly ==
    [callers |-> {}, codes |-> ErrorCodes, products |-> 1,
     entries |-> MaxEntries, threads |-> 0]

\* A run that follows _download_file statement by statement in a few threads.
FileOnly ==
    [callers |-> {}, codes |-> ErrorCodes, products |-> 1,
     entries |-> MaxEntries, threads |-> MaxDispatch]

Start ==
    /\ sema = MAX_THREADS
    /\ workers = <<>>
    /\ response = <<>>
    /\ threads = [a \in Clients |-> <<>>]
    /\ pc = [c \in Calls |-> "idle"]
    /\ tx = [c \in Calls |-> None]
    /\ codes = [c \in Calls |-> <<>>]
    /\ err = [c \in Calls |-> None]
    /\ payload = [c \in Calls |-> NoPayload]
    /\ label = [c \in Calls |-> NoLabel]
    /\ download_options = [c \in Calls |-> <<>>]
    /\ downloads = [c \in Calls |-> <<>>]
    /\ request_results = [c \in Calls |-> NoResults]
    /\ download_ids = [c \in Calls |-> <<>>]
    /\ seen = [c \in Calls |-> 0]
    /\ slept = [c \in Calls |-> 0]
    /\ jx = [c \in Calls |-> 0]
    /\ jt = [c \in Calls |-> 0]
    /\ environ = [USERNAME |-> Absent, PASSWORD |-> Absent]
    /\ args = NoCall
    /\ result = Returned(None)
    /\ loggedIn = FALSE
    /\ session = NoToken
    /\ logout_timer = "none"
    /\ todo = [t \in AuthThreads |-> IF t = "main" THEN InitSteps ELSE <<>>]
    /\ login_data = [t \in AuthThreads |-> None]
    /\ call = [t \in AuthThreads |->
                 [fn |-> IF t = "main" THEN "__init__" ELSE None, loggedIn |-> FALSE]]
    /\ ended = [t \in AuthThreads |-> "no"]
    /\ posted = [t \in AuthThreads |-> <<>>]
    /\ client = "new"

\* The locals of download_scene and _manage_downloads are not read again once
\* the join loop runs: they are dropped there and when the call ends.
\* download_options is dropped earlier, when the candidates are sent, and is
\* left as it is here.
Forget(c) ==
    /\ payload' = [payload EXCEPT ![c] = NoPayload]
    /\ label' = [label EXCEPT ![c] = NoLabel]
    /\ download_options' = download_options
    /\ downloads' = [downloads EXCEPT ![c] = <<>>]
    /\ request_results' = [request_results EXCEPT ![c] = NoResults]
    /\ download_ids' = [download_ids EXCEPT ![c] = <<>>]
    /\ seen' = [seen EXCEPT ![c] = 0]
    /\ slept' = [slept EXCEPT ![c] = 0]

FrameEnds(c) ==
    /\ Forget(c)
    /\ jx' = [jx EXCEPT ![c] = 0]
    /\ jt' = [jt EXCEPT ![c] = 0]

\* download_scene returns.
Return(c, e) ==
    /\ pc' = [pc EXCEPT ![c] = "returned"]
    /\ tx' = [tx EXCEPT ![c] = None]
    /\ err' = [err EXCEPT ![c] = e]
    /\ FrameEnds(c)

\* Mutant: download_scene has no except clause around download_options.
Raise_NoCatch(c, e) ==
    /\ tx' = [tx EXCEPT ![c] = "raised"]
    /\ err' = [err EXCEPT ![c] = e]
    /\ pc' = pc
    /\ FrameEnds(c)

\* Mutant: the try of download_scene spans the download-request as well.
Raise_CatchAnywhere(c, e) ==
    IF pc[c] \in {"options", "request"} /\ e = "USGSDatasetAuthError"
    THEN Return(c, e)
    ELSE /\ tx' = [tx EXCEPT ![c] = "raised"]
         /\ err' = [err EXCEPT ![c] = e]
         /\ pc' = pc
         /\ FrameEnds(c)

\* Exception e leaves _send_request_to_USGS.  The try of download_scene around
\* download_options catches USGSDatasetAuthError; downloads stays empty and the
\* call returns.  Everything else leaves download_scene.
Raise(c, e) ==
    IF pc[c] = "options" /\ e = "USGSDatasetAuthError"
    THEN Return(c, e)
    ELSE /\ tx' = [tx EXCEPT ![c] = "raised"]
         /\ err' = [err EXCEPT ![c] = e]
         /\ pc' = pc
         /\ FrameEnds(c)

\* requested_download_count = len(downloads)
requested_download_count(c) == Len(downloads[c])

-----------------------------------------------------------------------------
(* Payload classes (pydantic models) *)

\* What a keyword argument of a payload class can be: left out, None, an
\* empty str or list, or a value that is not empty.
FieldInputs == {Absent, None, "Empty", "Value"}

\* info.data.get(k): the fields validated so far, None for any other.
DataGet(data, k) == IF k \in DOMAIN data THEN data[k] ELSE None

\* A field validator returns a value or raises ValueError.
Valid(v) == [ok |-> TRUE, value |-> v]
ValueError == [ok |-> FALSE, value |-> None]

\* SceneListAdd.check_entity_fields, for the fields entityId and entityIds.
check_entity_fields(field_name, v, data) ==
    LET other_field == IF field_name = "entityIds" THEN "entityId" ELSE "entityId"
        other_value == DataGet(data, other_field)
    IN  IF v = None /\ other_value # None THEN ValueError
        ELSE IF ~Truthy(v) /\ ~Truthy(other_value) THEN ValueError
        ELSE Valid(v)

\* SearchParamsPayload.check_start_end_dates, for start_date and end_date.
check_start_end_dates(field_name, v, data) ==
    LET other_field == IF field_name = "start_date" THEN "end_date" ELSE "start_date"
        other_value == DataGet(data, other_field)
    IN  IF (v = None /\ other_value # None) \/ (v # None /\ other_value = None)
        THEN ValueError
        ELSE Valid(v)

\* SearchParamsPayload.check_longitude_latitude: it has no return statement,
\* so the field gets None when the checks pass.
check_longitude_latitude(field_name, v, data) ==
    LET other_field == IF field_name = "longitude" THEN "latitude" ELSE "longitude"
        other_value == DataGet(data, other_field)
        bbox == DataGet(data, "bbox")
    IN  IF (v # None \/ other_value # None) /\ bbox # None THEN ValueError
        ELSE IF (v = None /\ other_value # None) \/ (v # None /\ other_value = None)
        THEN ValueError
        ELSE Valid(None)

\* SearchParamsPayload.check_bbox
check_bbox(v, data) ==
    LET longitude == DataGet(data, "longitude")
        latitude == DataGet(data, "latitude")
    IN  IF v # None /\ (longitude # None \/ latitude # None) THEN ValueError
        ELSE Valid(v)

\* The validated fields of the payload classes, in the order of the class
\* body; the other fields have no validator and are taken to be valid.
SceneListAddFields == <<"entityId", "entityIds">>
SearchParamsFields == <<"longitude", "latitude", "bbox", "start_date", "end_date">>

\* The field validator registered for a field of a model.
FieldValidator(model, f, v, data) ==
    CASE model = "SceneListAdd" -> check_entity_fields(f, v, data)
      [] model = "SearchParamsPayload" /\ f \in {"start_date", "end_date"}
            -> check_start_end_dates(f, v, data)
      [] model = "SearchParamsPayload" /\ f \in {"longitude", "latitude"}
            -> check_longitude_latitude(f, v, data)
      [] model = "SearchParamsPayload" /\ f = "bbox" -> check_bbox(v, data)

\* The validation of the fields of a model: in the order of the class body;
\* a field left out gets its default None and its validator is not run; the
\* validator of a given field sees in data the fields before it that are
\* valid; a field whose validator raised is left out of data and validation
\* goes on.
RECURSIVE ModelFields(_, _, _, _)
ModelFields(model, fields, input, acc) ==
    IF fields = <<>> THEN acc
    ELSE LET f == Head(fields)
             r == IF input[f] = Absent THEN Valid(None)
                  ELSE FieldValidator(model, f, input[f], acc.data)
             data == [k \in (DOMAIN acc.data) \cup {f} |->
                         IF k = f THEN r.value ELSE acc.data[k]]
         IN  ModelFields(model, Tail(fields), input,
                         IF r.ok THEN [data |-> data, errors |-> acc.errors]
                         ELSE [data |-> acc.data, errors |-> acc.errors \cup {f}])

\* Model(**input): the instance, or ValidationError when a validator raised.
Construct(model, fields, input) ==
    LET r == ModelFields(model, fields, input,
                         [data |-> [k \in {} |-> None], errors |-> {}])
    IN  IF r.errors # {} THEN Raised("ValidationError") ELSE Returned(r.data)

\* The script builds a SceneListAdd.
SceneListAdd(entityId, entityIds) ==
    /\ args' = [fn |-> "SceneListAdd", entityId |-> entityId, entityIds |-> entityIds]
    /\ result' = Construct("SceneListAdd", SceneListAddFields,
                           [entityId |-> entityId, entityIds |-> entityIds])
    /\ UNCHANGED authVars
    /\ UNCHANGED <<scope, environ, sema, workers, response, threads, clientOf>>
    /\ UNCHANGED callVars

\* The script builds a SearchParamsPayload.
SearchParamsPayload(input) ==
    /\ args' = [fn |-> "SearchParamsPayload", input |-> input]
    /\ result' = Construct("SearchParamsPayload", SearchParamsFields, input)
    /\ UNCHANGED authVars
    /\ UNCHANGED <<scope, environ, sema, workers, response, threads, clientOf>>
    /\ UNCHANGED callVars

-----------------------------------------------------------------------------
(* get_api and the endpoint wrappers *)

\* The dotenv files of the machine: what each sets; a path with no file
\* sets nothing.
DotenvPaths == {".env.a", ".env.b", ".env.user", ".env.none"}
DotenvFile(path) ==
    CASE path = ".env.a" -> [USERNAME |-> "a_user", PASSWORD |-> "a_pass"]
      [] path = ".env.b" -> [USERNAME |-> "b_user", PASSWORD |-> "b_pass"]
      [] path = ".env.user" -> [USERNAME |-> "c_user", PASSWORD |-> Absent]
      [] OTHER -> [USERNAME |-> Absent, PASSWORD |-> Absent]

\* load_dotenv(dotenv_path): a variable of the file is set in os.environ
\* unless os.environ has it already (override is False by default).
load_dotenv(env, dotenv_path) ==
    [k \in DOMAIN env |->
        IF env[k] = Absent THEN DotenvFile(dotenv_path)[k] ELSE env[k]]

\* os.getenv(k)
getenv(env, k) == IF env[k] = Absent THEN None ELSE env[k]

\* get_api(username, password, dotenv_path): the client made with the
\* credentials, or TheiaCredentialsError.
get_api(username, password, dotenv_path) ==
    LET env == IF Truthy(dotenv_path) THEN load_dotenv(environ, dotenv_path)
               ELSE environ
        u == IF Truthy(dotenv_path) THEN getenv(env, "USERNAME") ELSE username
        p == IF Truthy(dotenv_path) THEN getenv(env, "PASSWORD") ELSE password
    IN  /\ environ' = env
        /\ args' = [fn |-> "get_api", username |-> username, password |-> password,
                    dotenv_path |-> dotenv_path]
        /\ result' = IF ~Truthy(u) \/ ~Truthy(p)
                     THEN Raised("TheiaCredentialsError")
                     ELSE Returned([username |-> u, password |-> p])
    /\ UNCHANGED authVars
    /\ UNCHANGED <<scope, sema, workers, response, threads, clientOf>>
    /\ UNCHANGED callVars

\* The public endpoint wrappers of TheiaAPI.
Wrappers ==
    {"data_owner", "dataset", "scene_search", "scene_list_add", "dataset_search",
     "dataset_filters", "download_options", "download_request", "permissions"}

\* The endpoint a wrapper hands to _send_request_to_USGS.
Endpoint(wrapper) ==
    CASE wrapper = "data_owner" -> "data-owner"
      [] wrapper = "dataset" -> "data-owner"
      [] wrapper = "scene_search" -> "scene-search"
      [] wrapper = "scene_list_add" -> "scene-list-add"
      [] wrapper = "dataset_search" -> "dataset-search"
      [] wrapper = "dataset_filters" -> "dataset-filters"
      [] wrapper = "download_options" -> "download-options"
      [] wrapper = "download_request" -> "download-options"
      [] wrapper = "permissions" -> "permissions"

\* The script calls a wrapper: the POST goes to the wrapper's endpoint.
CallWrapper(wrapper) ==
    /\ args' = [fn |-> wrapper]
    /\ result' = Returned([endpoint |-> Endpoint(wrapper)])
    /\ UNCHANGED authVars
    /\ UNCHANGED <<scope, environ, sema, workers, response, threads, clientOf>>
    /\ UNCHANGED callVars

-----------------------------------------------------------------------------
(* login, logout and the logout timer *)

\* What the session methods leave alone.
downloadVars ==
    <<scope, environ, args, result, sema, workers, response, threads, clientOf,
      callVars>>

\* What a call of _send_request_to_USGS with a str payload raises, None when
\* it returns: code1 is the errorCode of the first response, code2 that of
\* the response after a rate limit.
PostOutcome(code1, code2) ==
    LET e1 == CheckExceptions(code1)
        e2 == CheckExceptions(code2)
    IN  CASE OnFirst(e1) = "ok" -> None
          [] OnFirst(e1) = "raise" -> e1
          [] OnFirst(e1) = "retry" -> IF OnSecond(e2) = "ok" THEN None ELSE e2

\* Thread t is at the statement step.
At(t, step) == todo[t] # <<>> /\ Head(todo[t]) = step

\* self._session.post(...): the request goes out with the headers the session
\* has at that moment.
Post(t, endpoint) ==
    posted' = [posted EXCEPT ![t] = Append(@, [endpoint |-> endpoint, token |-> session])]

\* Thread t goes on with the statements rest; with none left its call
\* returns.
Proceed(t, rest) ==
    /\ todo' = [todo EXCEPT ![t] = rest]
    /\ ended' = [ended EXCEPT ![t] = IF rest = <<>> THEN "returned" ELSE @]
    /\ client' = IF t = "main" /\ rest = <<>>
                 THEN CASE call[t].fn = "__init__" -> "ready"
                        [] call[t].fn = "__del__" -> "deleted"
                        [] OTHER -> client
                 ELSE client

\* Exception e leaves the call of thread t: no method of the session catches
\* anything.
Propagate(t, e) ==
    /\ todo' = [todo EXCEPT ![t] = <<>>]
    /\ ended' = [ended EXCEPT ![t] = e]
    /\ client' = IF t = "main"
                 THEN CASE call[t].fn = "__init__" -> "failed"
                        [] call[t].fn = "__del__" -> "deleted"
                        [] OTHER -> client
                 ELSE client

\* Thread t begins the method fn.
Begin(t, fn, steps) ==
    /\ todo' = [todo EXCEPT ![t] = steps]
    /\ call' = [call EXCEPT ![t] = [fn |-> fn, loggedIn |-> loggedIn]]
    /\ ended' = [ended EXCEPT ![t] = "no"]
    /\ posted' = [posted EXCEPT ![t] = <<>>]

\* _logout_timer_manager("start"): a new Timer is made and started.
TimerStart(t) ==
    /\ At(t, "timer_start")
    /\ logout_timer' = "armed"
    /\ Proceed(t, Tail(todo[t]))
    /\ UNCHANGED <<loggedIn, session, login_data, call, posted>>
    /\ UNCHANGED downloadVars

\* _logout_timer_manager("stop"): cancel() stops a Timer that still waits.
TimerStop(t) ==
    /\ At(t, "timer_stop")
    /\ logout_timer' = IF logout_timer = "armed" THEN "cancelled" ELSE logout_timer
    /\ Proceed(t, Tail(todo[t]))
    /\ UNCHANGED <<loggedIn, session, login_data, call, posted>>
    /\ UNCHANGED downloadVars

\* login: if self._loggedIn: self.logout()
LoginTest(t) ==
    /\ At(t, "login_test")
    /\ Proceed(t, IF loggedIn THEN LogoutSteps \o Tail(todo[t]) ELSE Tail(todo[t]))
    /\ UNCHANGED <<loggedIn, session, logout_timer, login_data, call, posted>>
    /\ UNCHANGED downloadVars

\* login: the login request and its response.
LoginPost(t) ==
    /\ At(t, "login_post")
    /\ Post(t, "login")
    /\ \E code1, code2 \in scope.codes, token \in Tokens :
          LET e == PostOutcome(code1, code2)
          IN  IF e = None
              THEN /\ login_data' = [login_data EXCEPT ![t] = token]
                   /\ Proceed(t, Tail(todo[t]))
              ELSE /\ Propagate(t, e)
                   /\ UNCHANGED login_data
    /\ UNCHANGED <<loggedIn, session, logout_timer, call>>
    /\ UNCHANGED downloadVars

\* login: self._session.headers["X-Auth-Token"] = response.get("data")
LoginToken(t) ==
    /\ At(t, "login_token")
    /\ session' = login_data[t]
    /\ Proceed(t, Tail(todo[t]))
    /\ UNCHANGED <<loggedIn, logout_timer, login_data, call, posted>>
    /\ UNCHANGED downloadVars

\* login: self._loggedIn = True
LoginFlag(t) ==
    /\ At(t, "login_flag")
    /\ loggedIn' = TRUE
    /\ Proceed(t, Tail(todo[t]))
    /\ UNCHANGED <<session, logout_timer, login_data, call, posted>>
    /\ UNCHANGED downloadVars

\* logout: the logout request and its response.
LogoutPost(t) ==
    /\ At(t, "logout_post")
    /\ Post(t, "logout")
    /\ \E code1, code2 \in scope.codes :
          LET e == PostOutcome(code1, code2)
          IN  IF e = None THEN Proceed(t, Tail(todo[t])) ELSE Propagate(t, e)
    /\ UNCHANGED <<loggedIn, session, logout_timer, login_data, call>>
    /\ UNCHANGED downloadVars

\* logout: self._session = requests.Session()
LogoutSession(t) ==
    /\ At(t, "logout_session")
    /\ session' = NoToken
    /\ Proceed(t, Tail(todo[t]))
    /\ UNCHANGED <<loggedIn, logout_timer, login_data, call, posted>>
    /\ UNCHANGED downloadVars

\* logout: self._loggedIn = False
LogoutFlag(t) ==
    /\ At(t, "logout_flag")
    /\ loggedIn' = FALSE
    /\ Proceed(t, Tail(todo[t]))
    /\ UNCHANGED <<session, logout_timer, login_data, call, posted>>
    /\ UNCHANGED downloadVars

\* An endpoint wrapper: its request and the response.
RequestPost(t) ==
    /\ At(t, "request_post")
    /\ Post(t, "wrapper")
    /\ \E code1, code2 \in scope.codes :
          LET e == PostOutcome(code1, code2)
          IN  IF e = None THEN Proceed(t, Tail(todo[t])) ELSE Propagate(t, e)
    /\ UNCHANGED <<loggedIn, session, logout_timer, login_data, call>>
    /\ UNCHANGED downloadVars

\* The user's script calls a method of the client it has constructed.
CallMethod(fn, steps) ==
    /\ client = "ready"
    /\ todo["main"] = <<>>
    /\ Begin("main", fn, steps)
    /\ client' = IF fn = "__del__" THEN "deleting" ELSE client
    /\ UNCHANGED <<loggedIn, session, logout_timer, login_data>>
    /\ UNCHANGED downloadVars

CallLogin == CallMethod("login", LoginSteps)
CallLogout == CallMethod("logout", LogoutSteps)
CallRequest == CallMethod("request", <<"request_post">>)
CallDel == CallMethod("__del__", DelSteps)

\* The Timer expires after 2 * 60 * 60 seconds and runs _reset_login on its
\* own thread.  __init__ and an earlier _reset_login are over by then.
TimerFires ==
    /\ logout_timer = "armed"
    /\ client # "new"
    /\ todo["timer"] = <<>>
    /\ logout_timer' = "fired"
    /\ Begin("timer", "_reset_login", ResetSteps)
    /\ UNCHANGED <<loggedIn, session, login_data, client>>
    /\ UNCHANGED downloadVars

-----------------------------------------------------------------------------
(* Threads *)

\* A thread of _run_download: the call that started it and its url while it
\* runs, and how its transfer ended once it has.
Started(c, url) == [call |-> c, url |-> url, st |-> "started", outcome |-> None]
Ended(o) == [call |-> None, url |-> 0, st |-> "done", outcome |-> o]

\* Mutant: the caller takes the slot of _sema before it starts the thread.
RunDownload_Gated(c, url) ==
    /\ sema > 0
    /\ Len(workers) < scope.threads
    /\ workers' = Append(workers, Started(c, url))
    /\ threads' = [threads EXCEPT ![clientOf[c]] = Append(@, Len(workers) + 1)]

\* _run_download: a new thread for url, appended to _threads and started.
RunDownload(c, url) ==
    /\ Len(workers) < scope.threads
    /\ workers' = Append(workers, Started(c, url))
    /\ threads' = [threads EXCEPT ![clientOf[c]] = Append(@, Len(workers) + 1)]

\* Mutant: the thread goes on without waiting for a slot.
Acquire_Ungated(w) ==
    /\ workers[w].st = "started"
    /\ sema' = sema - 1
    /\ workers' = [workers EXCEPT ![w].st = "holding"]
    /\ UNCHANGED authVars
    /\ UNCHANGED <<scope, environ, args, result, response, threads, clientOf>>
    /\ UNCHANGED callVars

\* _download_file: _sema.acquire() blocks while the counter is 0.
Acquire(w) ==
    /\ workers[w].st = "started"
    /\ sema > 0
    /\ sema' = sema - 1
    /\ workers' = [workers EXCEPT ![w].st = "holding"]
    /\ UNCHANGED authVars
    /\ UNCHANGED <<scope, environ, args, result, response, threads, clientOf>>
    /\ UNCHANGED callVars

\* _download_file: the GET, the write, the except and the finally blocks.
Transfer(w) ==
    /\ workers[w].st = "holding"
    /\ \E t \in Transfers :
          /\ workers' = [workers EXCEPT ![w] = Ended(Outcome(t))]
          /\ sema' = sema + ReleaseCount(t)
    /\ UNCHANGED authVars
    /\ UNCHANGED <<scope, environ, args, result, response, threads, clientOf>>
    /\ UNCHANGED callVars

\* _download_file, the first statement of its try block: requests.get
\* answers, or is about to raise; t says which and what follows.
Get(w) ==
    /\ workers[w].st = "holding"
    /\ \E t \in Transfers :
          response' = [v \in (DOMAIN response) \cup {w} |->
                          IF v = w THEN t ELSE response[v]]
    /\ workers' = [workers EXCEPT ![w].st = "got"]
    /\ UNCHANGED authVars
    /\ UNCHANGED <<scope, environ, args, result, sema, threads, clientOf>>
    /\ UNCHANGED callVars

\* _download_file after the GET: the header test, the write, the except and
\* the finally blocks.
Store(w) ==
    /\ workers[w].st = "got"
    /\ workers' = [workers EXCEPT ![w] = Ended(Outcome(response[w]))]
    /\ sema' = sema + ReleaseCount(response[w])
    /\ response' = [v \in (DOMAIN response) \ {w} |-> response[v]]
    /\ UNCHANGED authVars
    /\ UNCHANGED <<scope, environ, args, result, threads, clientOf>>
    /\ UNCHANGED callVars

-----------------------------------------------------------------------------
(* _send_request_to_USGS *)

\* Mutant: the payload is posted without the isinstance test.
SendRequest_NoTypeCheck(c) ==
    /\ tx[c] = "call"
    /\ \E code \in scope.codes :
          /\ codes' = [codes EXCEPT ![c] = Append(@, code)]
          /\ LET e == CheckExceptions(code)
             IN  IF OnFirst(e) = "raise" THEN Raise(c, e)
                 ELSE /\ tx' = [tx EXCEPT ![c] = OnFirst(e)]
                      /\ UNCHANGED <<pc, err, payload, label, download_options,
                                     downloads, request_results, download_ids,
                                     seen, slept, jx, jt>>
    /\ UNCHANGED authVars
    /\ UNCHANGED <<scope, environ, args, result, sema, workers, response, threads,
                   clientOf>>

\* The type check of the payload and the first POST.
SendRequest(c) ==
    /\ tx[c] = "call"
    /\ IF ~payload[c].isStr
       THEN /\ Raise(c, "TypeError")
            /\ UNCHANGED codes
       ELSE \E code \in scope.codes :
               /\ codes' = [codes EXCEPT ![c] = Append(@, code)]
               /\ LET e == CheckExceptions(code)
                  IN  CASE OnFirst(e) = "ok" ->
                              /\ tx' = [tx EXCEPT ![c] = "ok"]
                              /\ UNCHANGED <<pc, err, payload, label, download_options,
                                             downloads, request_results, download_ids,
                                             seen, slept, jx, jt>>
                        [] OnFirst(e) = "retry" ->
                              /\ tx' = [tx EXCEPT ![c] = "retry"]
                              /\ UNCHANGED <<pc, err, payload, label, download_options,
                                             downloads, request_results, download_ids,
                                             seen, slept, jx, jt>>
                        [] OTHER -> Raise(c, e)
    /\ UNCHANGED authVars
    /\ UNCHANGED <<scope, environ, args, result, response, sema, workers, threads,
                   clientOf>>

\* except USGSRateLimitError: time.sleep(3), the second POST.
Retry(c) ==
    /\ tx[c] = "retry"
    /\ \E code \in scope.codes :
          /\ codes' = [codes EXCEPT ![c] = Append(@, code)]
          /\ LET e == CheckExceptions(code)
             IN  CASE OnSecond(e) = "ok" ->
                         /\ tx' = [tx EXCEPT ![c] = "ok"]
                         /\ UNCHANGED <<pc, err, payload, label, download_options,
                                        downloads, request_results, download_ids, seen,
                                        slept, jx, jt>>
                   [] OnSecond(e) = "retry" ->
                         /\ tx' = [tx EXCEPT ![c] = "retry"]
                         /\ UNCHANGED <<pc, err, payload, label, download_options,
                                        downloads, request_results, download_ids, seen,
                                        slept, jx, jt>>
                   [] OTHER -> Raise(c, e)
    /\ UNCHANGED authVars
    /\ UNCHANGED <<scope, environ, args, result, response, sema, workers, threads,
                   clientOf>>

-----------------------------------------------------------------------------
(* download_scene *)

\* The call begins: the payload of download_options is built and sent.
DownloadScene(c) ==
    /\ c \in scope.callers
    /\ pc[c] = "idle"
    /\ pc' = [pc EXCEPT ![c] = "options"]
    /\ tx' = [tx EXCEPT ![c] = "call"]
    /\ payload' = [payload EXCEPT ![c] = StrPayload(NoLabel)]
    /\ UNCHANGED authVars
    /\ UNCHANGED <<scope, environ, args, result, response, sema, workers, threads,
                   clientOf, codes, err, label, download_options, downloads,
                   request_results, download_ids, seen, slept, jx, jt>>

\* download_options answered: its data is kept in download_options.
OptionsDone(c) ==
    /\ pc[c] = "options"
    /\ tx[c] = "ok"
    /\ \E options \in OptionResponses(scope.products) :
          download_options' = [download_options EXCEPT ![c] = options]
    /\ pc' = [pc EXCEPT ![c] = "downloads"]
    /\ tx' = [tx EXCEPT ![c] = None]
    /\ codes' = [codes EXCEPT ![c] = <<>>]
    /\ UNCHANGED authVars
    /\ UNCHANGED <<scope, environ, args, result, response, sema, workers, threads,
                   clientOf, err, payload, label, downloads, request_results,
                   download_ids, seen, slept, jx, jt>>

\* The list comprehension and if downloads: with candidates the label is
\* taken and the batch is sent, without the call returns.
Downloads(c) ==
    /\ pc[c] = "downloads"
    /\ IF Candidates(download_options[c]) # <<>>
       THEN /\ downloads' = [downloads EXCEPT ![c] = Candidates(download_options[c])]
            /\ download_options' = [download_options EXCEPT ![c] = <<>>]
            /\ label' = [label EXCEPT ![c] = Strftime(slept[c])]
            /\ payload' = [payload EXCEPT ![c] = StrPayload(Strftime(slept[c]))]
            /\ pc' = [pc EXCEPT ![c] = "request"]
            /\ tx' = [tx EXCEPT ![c] = "call"]
            /\ UNCHANGED <<err, request_results, download_ids, seen, slept, jx, jt>>
       ELSE Return(c, None)
    /\ UNCHANGED authVars
    /\ UNCHANGED <<scope, environ, args, result, response, sema, workers, threads,
                   clientOf, codes>>

\* download-request answered: poll download-retrieve when downloads are in
\* preparation, else go through availableDownloads.
RequestDone(c) ==
    /\ pc[c] = "request"
    /\ tx[c] = "ok"
    /\ \E rr \in RequestResponses(requested_download_count(c)) :
          /\ request_results' = [request_results EXCEPT ![c] = rr]
          /\ IF UsePolling(rr)
             THEN /\ pc' = [pc EXCEPT ![c] = "retrieve"]
                  /\ tx' = [tx EXCEPT ![c] = "call"]
                  /\ payload' = [payload EXCEPT ![c] = StrPayload(label[c])]
             ELSE /\ pc' = [pc EXCEPT ![c] = "direct"]
                  /\ tx' = [tx EXCEPT ![c] = None]
                  /\ UNCHANGED payload
    /\ codes' = [codes EXCEPT ![c] = <<>>]
    /\ seen' = [seen EXCEPT ![c] = 0]
    /\ UNCHANGED authVars
    /\ UNCHANGED <<scope, environ, args, result, response, sema, workers, threads,
                   clientOf, err, label, download_options, downloads, download_ids,
                   slept, jx, jt>>

\* for download in request_results["availableDownloads"]: _run_download
Direct(c) ==
    /\ pc[c] = "direct"
    /\ IF seen[c] < Len(request_results[c].availableDownloads)
       THEN /\ RunDownload(c, request_results[c].availableDownloads[seen[c] + 1].url)
            /\ seen' = [seen EXCEPT ![c] = @ + 1]
            /\ UNCHANGED pc
            /\ UNCHANGED <<payload, label, download_options, downloads,
                           request_results, download_ids, slept, jx, jt>>
       ELSE /\ pc' = [pc EXCEPT ![c] = "join"]
            /\ UNCHANGED <<workers, threads, seen, payload, label, download_options,
                           downloads, request_results, download_ids, slept, jx, jt>>
    /\ UNCHANGED authVars
    /\ UNCHANGED <<scope, environ, args, result, response, sema, clientOf, tx, codes,
                   err>>

\* The first download-retrieve answered: _manage_downloads is entered.
RetrieveDone(c) ==
    /\ pc[c] = "retrieve"
    /\ tx[c] = "ok"
    /\ pc' = [pc EXCEPT ![c] = "available"]
    /\ tx' = [tx EXCEPT ![c] = None]
    /\ codes' = [codes EXCEPT ![c] = <<>>]
    /\ download_ids' = [download_ids EXCEPT ![c] = <<>>]
    /\ seen' = [seen EXCEPT ![c] = 0]
    /\ UNCHANGED authVars
    /\ UNCHANGED <<scope, environ, args, result, response, sema, workers, threads,
                   clientOf, err, payload, label, download_options, downloads,
                   request_results, slept, jx, jt>>

\* Mutant: the loops only record the download; the threads are started
\* later, for the whole batch.
Entry_Deferred(c, d) ==
    /\ seen[c] < scope.entries
    /\ seen' = [seen EXCEPT ![c] = @ + 1]
    /\ IF Wanted(request_results[c], d)
       THEN download_ids' = [download_ids EXCEPT ![c] = Append(@, d)]
       ELSE UNCHANGED download_ids
    /\ UNCHANGED <<workers, threads>>
    /\ UNCHANGED authVars
    /\ UNCHANGED <<scope, environ, args, result, response, sema, clientOf, pc, tx,
                   codes, err, payload, label, download_options, downloads,
                   request_results, slept, jx, jt>>

\* The body of the two for loops of _manage_downloads for the entry d.
Entry(c, d) ==
    /\ seen[c] < scope.entries
    /\ seen' = [seen EXCEPT ![c] = @ + 1]
    /\ IF Wanted(request_results[c], d)
       THEN /\ download_ids' = [download_ids EXCEPT ![c] = Append(@, d)]
            /\ RunDownload(c, d)
       ELSE UNCHANGED <<download_ids, workers, threads>>
    /\ UNCHANGED authVars
    /\ UNCHANGED <<scope, environ, args, result, response, sema, clientOf, pc, tx,
                   codes, err, payload, label, download_options, downloads,
                   request_results, slept, jx, jt>>

\* for download in download_urls.get("available", [])
Available(c) ==
    /\ pc[c] = "available"
    /\ \/ \E d \in EntryIds(scope.products) : Entry(c, d)
       \/ /\ pc' = [pc EXCEPT ![c] = "requested"]
          /\ seen' = [seen EXCEPT ![c] = 0]
          /\ UNCHANGED authVars
          /\ UNCHANGED <<scope, environ, args, result, response, sema, workers,
                         threads, clientOf, tx, codes, err, payload, label,
                         download_options, downloads, request_results, download_ids,
                         slept, jx, jt>>

\* for download in download_urls.get("requested", []), then the test of the
\* while loop: into its body, or back in download_scene at the join.
Requested(c) ==
    /\ pc[c] = "requested"
    /\ \/ \E d \in EntryIds(scope.products) : Entry(c, d)
       \/ /\ IF LoopCond(download_ids[c], requested_download_count(c),
                         request_results[c])
             THEN pc' = [pc EXCEPT ![c] = "sleep"]
             ELSE pc' = [pc EXCEPT ![c] = "join"]
          /\ UNCHANGED authVars
          /\ UNCHANGED <<scope, environ, args, result, response, sema, workers,
                         threads, clientOf, tx, codes, err, payload, label,
                         download_options, downloads, request_results, download_ids,
                         seen, slept, jx, jt>>

\* The body of the while loop up to its call of _send_request_to_USGS:
\* time.sleep(30), a new label, and a dict as the payload.  The call raises
\* TypeError for the dict (see SendRequest), so the rest of the body never runs.
Sleep(c) ==
    /\ pc[c] = "sleep"
    /\ slept' = [slept EXCEPT ![c] = @ + 30]
    /\ payload' = [payload EXCEPT ![c] = DictPayload(Strftime(slept[c] + 30))]
    /\ pc' = [pc EXCEPT ![c] = "poll"]
    /\ tx' = [tx EXCEPT ![c] = "call"]
    /\ UNCHANGED authVars
    /\ UNCHANGED <<scope, environ, args, result, response, sema, workers, threads,
                   clientOf, codes, err, label, download_options, downloads,
                   request_results, download_ids, seen, jx, jt>>

\* Mutant: the join hands the exception of a failed transfer to the caller,
\* as the result of a future does.
Join_Propagates(c) ==
    /\ pc[c] = "join"
    /\ jt[c] # 0 => workers[jt[c]].st = "done"
    /\ IF jt[c] # 0 /\ workers[jt[c]].outcome = "failed"
       THEN Raise(c, "Exception")
       ELSE /\ IF jx[c] < Len(threads[clientOf[c]])
               THEN /\ jt' = [jt EXCEPT ![c] = threads[clientOf[c]][jx[c] + 1]]
                    /\ jx' = [jx EXCEPT ![c] = @ + 1]
                    /\ UNCHANGED pc
               ELSE /\ pc' = [pc EXCEPT ![c] = "clear"]
                    /\ jt' = [jt EXCEPT ![c] = 0]
                    /\ jx' = [jx EXCEPT ![c] = 0]
            /\ Forget(c)
            /\ UNCHANGED <<tx, err>>
    /\ UNCHANGED authVars
    /\ UNCHANGED <<scope, environ, args, result, response, sema, workers, threads,
                   clientOf, codes>>

\* for thread in self._threads: thread.join().  The list iterator reads the
\* list at its index each time round; the thread it got is joined even when
\* the list is changed meanwhile.
Join(c) ==
    /\ pc[c] = "join"
    /\ jt[c] # 0 => workers[jt[c]].st = "done"
    /\ IF jx[c] < Len(threads[clientOf[c]])
       THEN /\ jt' = [jt EXCEPT ![c] = threads[clientOf[c]][jx[c] + 1]]
            /\ jx' = [jx EXCEPT ![c] = @ + 1]
            /\ UNCHANGED pc
       ELSE /\ pc' = [pc EXCEPT ![c] = "clear"]
            /\ jt' = [jt EXCEPT ![c] = 0]
            /\ jx' = [jx EXCEPT ![c] = 0]
    /\ Forget(c)
    /\ UNCHANGED authVars
    /\ UNCHANGED <<scope, environ, args, result, response, sema, workers, threads,
                   clientOf, tx, codes, err>>

\* self._threads.clear(), and the call returns.
Clear(c) ==
    /\ pc[c] = "clear"
    /\ threads' = [threads EXCEPT ![clientOf[c]] = <<>>]
    /\ Return(c, None)
    /\ UNCHANGED authVars
    /\ UNCHANGED <<scope, environ, args, result, response, sema, workers, clientOf,
                   codes>>

\* Some caller calls _run_download: the fetch pool seen from outside.
Submit(c) ==
    /\ scope.callers = {}
    /\ \E url \in EntryIds(scope.products) : RunDownload(c, url)
    /\ UNCHANGED authVars
    /\ UNCHANGED <<scope, environ, args, result, response, sema, clientOf>>
    /\ UNCHANGED callVars

-----------------------------------------------------------------------------

Next ==
    \/ \E c \in Calls : DownloadScene(c)
    \/ \E c \in Calls : SendRequest(c)
    \/ \E c \in Calls : Retry(c)
    \/ \E c \in Calls : OptionsDone(c)
    \/ \E c \in Calls : Downloads(c)
    \/ \E c \in Calls : RequestDone(c)
    \/ \E c \in Calls : Direct(c)
    \/ \E c \in Calls : RetrieveDone(c)
    \/ \E c \in Calls : Available(c)
    \/ \E c \in Calls : Requested(c)
    \/ \E c \in Calls : Sleep(c)
    \/ \E c \in Calls : Join(c)
    \/ \E c \in Calls : Clear(c)
    \/ \E w \in 1..Len(workers) : Acquire(w)
    \/ \E w \in 1..Len(workers) : Transfer(w)

Init ==
    /\ Start
    /\ scope = OneCall
    /\ clientOf = [c \in Calls |-> "api1"]

Spec == Init /\ [][Next]_vars

ConcInit ==
    /\ Start
    /\ scope = TwoCalls
    /\ clientOf \in {f \in [Calls -> Clients] : f["A"] = "api1"}

ConcSpec == ConcInit /\ [][Next]_vars

PoolNext ==
    \/ \E c \in Calls : Submit(c)
    \/ \E w \in 1..Len(workers) : Acquire(w)
    \/ \E w \in 1..Len(workers) : Transfer(w)

PoolInit ==
    /\ Start
    /\ scope = PoolOnly
    /\ clientOf = [c \in Calls |-> "api1"]

PoolSpec == PoolInit /\ [][PoolNext]_vars

\* The fetch pool with a scheduler that lets every thread run: a thread that
\* can take a slot does so in the end, and every GET returns or raises.
PoolFairness ==
    \A w \in 1..MaxThreads :
       WF_vars(w \in 1..Len(workers) /\ (Acquire(w) \/ Transfer(w)))

PoolLiveSpec == PoolSpec /\ PoolFairness

FileNext ==
    \/ \E c \in Calls : Submit(c)
    \/ \E w \in 1..Len(workers) : Acquire(w)
    \/ \E w \in 1..Len(workers) : Get(w)
    \/ \E w \in 1..Len(workers) : Store(w)

FileInit ==
    /\ Start
    /\ scope = FileOnly
    /\ clientOf = [c \in Calls |-> "api1"]

FileSpec == FileInit /\ [][FileNext]_vars

\* A script that builds payloads, makes clients and calls the wrappers.
LibNext ==
    \/ \E entityId, entityIds \in FieldInputs : SceneListAdd(entityId, entityIds)
    \/ \E input \in [{"longitude", "latitude", "bbox", "start_date", "end_date"}
                       -> {Absent, None, "Value"}] : SearchParamsPayload(input)
    \/ \E username \in {None, "Empty", "arg_user"},
          password \in {None, "Empty", "arg_pass"},
          dotenv_path \in {None, "Empty"} \cup DotenvPaths :
            get_api(username, password, dotenv_path)
    \/ \E wrapper \in Wrappers : CallWrapper(wrapper)

LibInit ==
    /\ Start
    /\ scope = LibOnly
    /\ clientOf = [c \in Calls |-> "api1"]

LibSpec == LibInit /\ [][LibNext]_vars

\* The user's script alone uses the client: it constructs it and calls
\* login, logout and the wrappers; no timer expires meanwhile.
AuthNext ==
    \/ CallLogin
    \/ CallLogout
    \/ CallRequest
    \/ \E t \in {"main"} :
          \/ TimerStart(t)
          \/ LoginTest(t)
          \/ LoginPost(t)
          \/ LoginToken(t)
          \/ LoginFlag(t)
          \/ LogoutPost(t)
          \/ LogoutSession(t)
          \/ LogoutFlag(t)
          \/ RequestPost(t)

AuthInit ==
    /\ Start
    /\ scope = LibOnly
    /\ clientOf = [c \in Calls |-> "api1"]

AuthSpec == AuthInit /\ [][AuthNext]_vars

\* The user's script constructs the client, calls wrappers and deletes the
\* client, while the logout timer expires and _reset_login runs on the
\* timer's thread.
TimerNext ==
    \/ CallRequest
    \/ CallDel
    \/ TimerFires
    \/ \E t \in AuthThreads :
          \/ TimerStart(t)
          \/ TimerStop(t)
          \/ LoginTest(t)
          \/ LoginPost(t)
          \/ LoginToken(t)
          \/ LoginFlag(t)
          \/ LogoutPost(t)
          \/ LogoutSession(t)
          \/ LogoutFlag(t)
          \/ RequestPost(t)

TimerSpec == AuthInit /\ [][TimerNext]_vars

-----------------------------------------------------------------------------
(* Properties *)

Range(q) == {q[i] : i \in 1..Len(q)}

\* The threads between _sema.acquire() and _sema.release().
Holding == {w \in 1..Len(workers) : workers[w].st \in {"holding", "got"}}

\* The threads call c started that have not finished.
Running(c) == {w \in 1..Len(workers) : workers[w].call = c /\ workers[w].st # "done"}

\* C1: at most MAX_THREADS threads are between acquiring and releasing _sema,
\* whoever started them and however many were started.
C1_GateCap == Cardinality(Holding) <= MAX_THREADS

\* All slots are held by threads of both callers and one more thread waits.
C1_Witness ==
    /\ Cardinality(Holding) = MAX_THREADS
    /\ \E w \in 1..Len(workers) : workers[w].st = "started"
    /\ \A c \in Calls : \E w \in Holding : workers[w].call = c

\* C2: every thread that took a slot gives it back once, however its transfer
\* ends: the counter of _sema is MAX_THREADS less the threads holding a slot,
\* so it is MAX_THREADS again when all threads have finished.
C2_ReleasedOnce == sema + Cardinality(Holding) = MAX_THREADS

\* All threads have finished, in each of the three ways, and the gate is full.
C2_Witness ==
    /\ Len(workers) >= 3
    /\ \A w \in 1..Len(workers) : workers[w].st = "done"
    /\ {workers[w].outcome : w \in 1..Len(workers)} = {"written", "skipped", "failed"}
    /\ sema = MAX_THREADS

\* C3: when download_scene has returned, every thread the call started has
\* finished.
C3_ReturnsAfterWorkers == \A c \in Calls : pc[c] = "returned" => Running(c) = {}

\* C4: with preparingDownloads false no POST goes to download-retrieve, and the
\* call reaches its join with one thread started per entry of
\* availableDownloads.
C4_DirectPath ==
    [][\A c \in Calls :
          /\ (pc[c] \in {"retrieve", "poll"} /\ Len(codes'[c]) > Len(codes[c]))
                => request_results[c].preparingDownloads
          /\ (pc[c] = "direct" /\ pc'[c] = "join")
                => Len(workers) = Len(request_results[c].availableDownloads)]_vars

\* The direct path has started a thread for each of two available downloads.
C4_Witness ==
    \E c \in Calls :
       /\ pc[c] = "join"
       /\ ~request_results[c].preparingDownloads
       /\ Len(request_results[c].availableDownloads) = 2
       /\ Len(workers) = 2

\* C5: a call in the polling loop does not end with an error unless the service
\* answered one: it goes on polling until it can return.
C5_PollingReturns ==
    \A c \in Calls : (pc[c] = "poll" /\ tx[c] = "raised") => codes[c] # <<>>

\* C6: the loop body is entered only while fewer downloads are resolved than
\* were requested and did not fail.
C6_StopsAtTarget ==
    \A c \in Calls :
       (pc[c] \in {"sleep", "poll"} /\ tx[c] # "raised")
          => Len(download_ids[c]) < Len(downloads[c]) - Len(request_results[c].failed)

\* One of two downloads failed, the other is resolved, and the loop is over.
C6_Witness ==
    \E c \in Calls :
       /\ pc[c] = "join"
       /\ request_results[c].preparingDownloads
       /\ Len(downloads[c]) = 2
       /\ Len(request_results[c].failed) = 1
       /\ Len(download_ids[c]) = 1

\* C7: every payload sent to download-retrieve carries the label of the call.
C7_SameLabel ==
    \A c \in Calls :
       (pc[c] \in {"retrieve", "poll"} /\ tx[c] \in {"call", "retry", "ok"})
          => payload[c].label = label[c]

\* C8: no two threads of one call are for the same download.
C8_NoDoubleDispatch ==
    \A c \in Calls : \A v, w \in Running(c) : v # w => workers[v].url # workers[w].url

C10_RetryOnce ==
    \A c \in Calls :
       /\ Len(codes[c]) <= 2
       /\ Len(codes[c]) = 2 => codes[c][1] = "RATE_LIMIT"
       /\ codes[c] = <<"RATE_LIMIT">> => tx[c] = "retry"
       /\ codes[c] = <<"RATE_LIMIT", None>> => tx[c] = "ok"
       /\ codes[c] = <<"RATE_LIMIT", "RATE_LIMIT">>
             => (tx[c] = "raised" /\ err[c] = "USGSRateLimitError")

\* A rate-limited request has succeeded at its second POST.
C10_Witness == \E c \in Calls : codes[c] = <<"RATE_LIMIT", None>> /\ tx[c] = "ok"

\* C11: when the first response of a transport call carries an error code
\* other than RATE_LIMIT, the call is over after that one POST with the mapped
\* error; it never waits for a second attempt.
C11_NoRetryOnOtherErrors ==
    \A c \in Calls :
       (codes[c] # <<>> /\ codes[c][1] \notin {None, "RATE_LIMIT"})
          => /\ Len(codes[c]) = 1
             /\ tx[c] \notin {"call", "retry", "ok"}
             /\ err[c] = CheckExceptions(codes[c][1])
             /\ err[c] # None

\* download-request answered AUTH_UNAUTHORIZED and the call ended with
\* USGSUnauthorizedError after one POST.
C11_Witness ==
    \E c \in Calls :
       /\ pc[c] = "request"
       /\ codes[c] = <<"AUTH_UNAUTHORIZED">>
       /\ tx[c] = "raised"
       /\ err[c] = "USGSUnauthorizedError"

\* C12: the exception of a response is a function of its errorCode alone:
\* AUTH_INVALID and AUTH_KEY_INVALID give USGSAuthenticationError,
\* AUTH_UNAUTHORIZED gives USGSUnauthorizedError, RATE_LIMIT gives
\* USGSRateLimitError (caught once), DATASET_AUTH gives USGSDatasetAuthError,
\* every other code that is not null gives USGSError, a null code nothing.
C12_ErrorTable ==
    \A c \in Calls :
       codes[c] # <<>> =>
          LET code == codes[c][Len(codes[c])]
              raised == IF tx[c] = "raised" \/ pc[c] = "returned" THEN err[c] ELSE None
          IN  /\ code \in {"AUTH_INVALID", "AUTH_KEY_INVALID"}
                    => raised = "USGSAuthenticationError"
              /\ code = "AUTH_UNAUTHORIZED" => raised = "USGSUnauthorizedError"
              /\ code = "RATE_LIMIT"
                    => (tx[c] = "retry" \/ raised = "USGSRateLimitError")
              /\ code = "DATASET_AUTH" => raised = "USGSDatasetAuthError"
              /\ code \in {"SERVER_ERROR", "rate_limit", ""}
                    => raised = "USGSError"
              /\ code = None => (tx[c] = "ok" /\ err[c] = None)

\* A code the match statement has no case for, the empty string or a code in
\* lower case, has given USGSError.
C12_Witness ==
    \E c \in Calls :
       /\ codes[c] \in {<<"">>, <<"RATE_LIMIT", "rate_limit">>}
       /\ tx[c] = "raised"
       /\ err[c] = "USGSError"

\* C13: when the download-options response lists no available product (no
\* product at all, or none with available true) download_scene returns
\* normally at once; it has posted nothing since and started no thread, and
\* a call that has returned posts nothing and starts nothing afterwards.
C13_NothingAvailable ==
    [][\A c \in Calls :
          /\ (/\ pc[c] = "downloads"
              /\ \A i \in 1..Len(download_options[c]) :
                    ~download_options[c][i].available
              /\ pc'[c] # pc[c])
                => /\ pc'[c] = "returned"
                   /\ err'[c] = None
                   /\ codes'[c] = <<>>
                   /\ workers' = workers
          /\ pc[c] = "returned"
                => /\ pc'[c] = "returned"
                   /\ codes'[c] = codes[c]
                   /\ Len(workers') > Len(workers)
                         => workers'[Len(workers')].call # c]_vars

\* The service listed two products, neither available, and the call has
\* returned without an error and without a thread.
C13_Witness ==
    \E c \in Calls :
       /\ pc[c] = "returned"
       /\ err[c] = None
       /\ Len(download_options[c]) = 2
       /\ \A i \in 1..2 : ~download_options[c][i].available
       /\ workers = <<>>

\* C14: a DATASET_AUTH answer to the download-options request ends the call
\* with a normal return, no candidates, no thread and nothing posted after;
\* every other error of that request leaves download_scene as it was raised.
C14_OptionsErrors ==
    [][\A c \in Calls :
          /\ (pc[c] = "options" /\ Len(codes'[c]) > Len(codes[c]))
                => LET code == codes'[c][Len(codes'[c])]
                   IN  /\ code = "DATASET_AUTH"
                             => /\ pc'[c] = "returned"
                                /\ tx'[c] # "raised"
                                /\ downloads'[c] = <<>>
                                /\ workers' = workers
                       /\ (/\ code \notin {None, "DATASET_AUTH"}
                           /\ ~(code = "RATE_LIMIT" /\ Len(codes'[c]) = 1))
                             => /\ pc'[c] = "options"
                                /\ tx'[c] = "raised"
                                /\ err'[c] = CheckExceptions(code)
                                /\ err'[c] \notin {None, "USGSDatasetAuthError"}
          /\ (pc[c] = "returned" /\ err[c] = "USGSDatasetAuthError")
                => /\ pc'[c] = "returned"
                   /\ codes'[c] = codes[c]
                   /\ workers' = workers]_vars

\* The options request was rate-limited, then refused with DATASET_AUTH, and
\* the call has returned.
C14_Witness ==
    \E c \in Calls :
       /\ pc[c] = "returned"
       /\ err[c] = "USGSDatasetAuthError"
       /\ codes[c] = <<"RATE_LIMIT", "DATASET_AUTH">>
       /\ workers = <<>>

\* C15: every error of the download-request submission, USGSDatasetAuthError
\* included, leaves download_scene; the call has started no thread and posts
\* nothing to download-retrieve afterwards.
C15_RequestErrors ==
    [][\A c \in Calls :
          /\ (pc[c] = "request" /\ Len(codes'[c]) > Len(codes[c]))
                => LET code == codes'[c][Len(codes'[c])]
                   IN  (code # None /\ ~(code = "RATE_LIMIT" /\ Len(codes'[c]) = 1))
                          => /\ pc'[c] = "request"
                             /\ tx'[c] = "raised"
                             /\ err'[c] = CheckExceptions(code)
                             /\ err'[c] # None
                             /\ \A w \in 1..Len(workers') : workers'[w].call # c
          /\ (pc[c] = "request" /\ tx[c] = "raised")
                => /\ pc'[c] = "request"
                   /\ tx'[c] = "raised"
                   /\ codes'[c] = codes[c]
                   /\ \A w \in 1..Len(workers') : workers'[w].call # c]_vars

\* download-request answered DATASET_AUTH and the call ended with
\* USGSDatasetAuthError, no thread started.
C15_Witness ==
    \E c \in Calls :
       /\ pc[c] = "request"
       /\ tx[c] = "raised"
       /\ err[c] = "USGSDatasetAuthError"
       /\ codes[c] = <<"DATASET_AUTH">>
       /\ workers = <<>>

\* C16: a transfer that fails changes nothing but its own thread and the
\* slot it gives back: no caller and no other thread is touched; and a call
\* that has reached its join loop ends with a normal return, never an error.
C16_WorkerErrorsContained ==
    [][/\ \A w \in 1..Len(workers) :
             (workers[w].st = "holding" /\ workers'[w].outcome = "failed")
                => /\ UNCHANGED callVars
                   /\ threads' = threads
                   /\ sema' = sema + 1
                   /\ \A v \in (1..Len(workers)) \ {w} : workers'[v] = workers[v]
       /\ \A c \in Calls :
             pc[c] \in {"join", "clear"}
                => /\ pc'[c] \in {"join", "clear", "returned"}
                   /\ tx'[c] # "raised"
                   /\ err'[c] = None]_vars

\* One transfer failed, another wrote its file, and the call has returned
\* without an error.
C16_Witness ==
    \E c \in Calls :
       /\ pc[c] = "returned"
       /\ err[c] = None
       /\ \E v, w \in 1..Len(workers) :
             workers[v].outcome = "failed" /\ workers[w].outcome = "written"

\* C17: a download_scene call ends with an error only when the submission
\* failed, that is at the download-options or the download-request step; a
\* failure of the polling phase does not end the call with an error.
C17_ErrorsOnlyFromSubmission ==
    \A c \in Calls : tx[c] = "raised" => pc[c] \in {"options", "request"}

\* C18: the bookkeeping of a call is its own: the thread a call is waiting
\* for is one it started, and the threads of a call that are running stay in
\* the list the call will join, whatever other calls on the client do.
C18_OwnBookkeeping ==
    \A c \in Calls :
       /\ (jt[c] # 0 /\ workers[jt[c]].st # "done") => workers[jt[c]].call = c
       /\ (pc[c] \in {"direct", "available", "requested", "join"} /\ jx[c] = 0)
             => Running(c) \subseteq Range(threads[clientOf[c]])

\* C19: with one download in preparation that the first download-retrieve
\* response resolves, the response is processed without another POST, and the
\* loop is left for the join with one thread started and no sleep.
C19_OnePollOneThread ==
    [][\A c \in Calls :
          (/\ request_results[c].preparingDownloads
           /\ Len(downloads[c]) = 1
           /\ request_results[c].newRecords = {Str(1)}
           /\ pc[c] \in {"available", "requested"})
             => /\ codes'[c] = codes[c]
                /\ pc'[c] \in {"available", "requested", "join", "sleep"}
                /\ (download_ids[c] = <<1>> /\ pc'[c] \notin {"available", "requested"})
                      => /\ pc'[c] = "join"
                         /\ slept'[c] = 0
                         /\ Len(workers') = 1]_vars

\* The first response listed download 1 as available and nothing as
\* requested; the call is at its join with one thread and has not slept.
C19_Witness ==
    \E c \in Calls :
       /\ pc[c] = "join"
       /\ request_results[c].preparingDownloads
       /\ Len(downloads[c]) = 1
       /\ request_results[c].newRecords = {Str(1)}
       /\ download_ids[c] = <<1>>
       /\ seen[c] = 0
       /\ slept[c] = 0
       /\ Len(workers) = 1

\* C20: a thread whose response has no content-disposition header ends
\* without a file written and without an exception handled, and gives its
\* slot back.
C20_NoHeader ==
    [][\A w \in DOMAIN response :
          (response[w] = "no_header" /\ workers'[w].st = "done")
             => /\ workers'[w].outcome = "skipped"
                /\ sema' = sema + 1
                /\ w \notin DOMAIN response']_vars

\* One thread met a response without the header and another wrote its file;
\* both have ended and all slots are free.
C20_Witness ==
    /\ \E v, w \in 1..Len(workers) :
          workers[v].outcome = "skipped" /\ workers[w].outcome = "written"
    /\ \A w \in 1..Len(workers) : workers[w].st = "done"
    /\ response = <<>>
    /\ sema = MAX_THREADS

\* C21: the candidates sent to download-request are the products of the
\* download-options response whose available flag is true, each as
\* (entityId, productId = id), in the order of the response; with none the
\* call returns.
C21_CandidateList ==
    [][\A c \in Calls :
          (pc[c] = "downloads" /\ pc'[c] # "downloads")
             => LET o == download_options[c]
                    av == Ascending({i \in 1..Len(o) : o[i].available})
                IN  /\ Len(downloads'[c]) = Len(av)
                    /\ \A j \in 1..Len(av) :
                          downloads'[c][j] =
                             [entityId |-> o[av[j]].entityId, productId |-> o[av[j]].id]
                    /\ (pc'[c] = "request") = (av # <<>>)]_vars

\* Two available products gave two candidates in the order of the response.
C21_Witness ==
    \E c \in Calls :
       /\ pc[c] = "request"
       /\ downloads[c] = <<[entityId |-> <<"e", 1>>, productId |-> <<"p", 1>>],
                           [entityId |-> <<"e", 2>>, productId |-> <<"p", 2>>]>>

C30_BothDatesOrNeither ==
    (/\ args.fn = "SearchParamsPayload"
     /\ \A f \in {"longitude", "latitude", "bbox"} : args.input[f] = Absent
     /\ \A f \in {"start_date", "end_date"} : args.input[f] \in {Absent, "Value"})
       => ((result.raised = None)
              = ((args.input["start_date"] = "Value")
                   = (args.input["end_date"] = "Value")))

\* C29: every endpoint wrapper posts to the endpoint of its own name.
C29_OwnEndpoint ==
    args.fn \in Wrappers
       => result.value.endpoint =
             [data_owner |-> "data-owner", dataset |-> "dataset",
              scene_search |-> "scene-search", scene_list_add |-> "scene-list-add",
              dataset_search |-> "dataset-search",
              dataset_filters |-> "dataset-filters",
              download_options |-> "download-options",
              download_request |-> "download-request",
              permissions |-> "permissions"][args.fn]

\* C24: get_api raises TheiaCredentialsError when the effective username or
\* password is missing or empty, and makes the client with the effective
\* credentials otherwise; with a dotenv_path the effective credentials are
\* those of the dotenv file, without one they are the arguments.
C24_EffectiveCredentials ==
    args.fn = "get_api"
       => LET u == IF Truthy(args.dotenv_path)
                   THEN DotenvFile(args.dotenv_path).USERNAME ELSE args.username
              p == IF Truthy(args.dotenv_path)
                   THEN DotenvFile(args.dotenv_path).PASSWORD ELSE args.password
          IN  IF ~Truthy(u) \/ ~Truthy(p)
              THEN result.raised = "TheiaCredentialsError"
              ELSE /\ result.raised = None
                   /\ result.value = [username |-> u, password |-> p]

\* C23: a transport call with a payload that is not a str ends with
\* TypeError and no POST: nothing is sent for it.
C23_TypeErrorBeforePost ==
    [][\A c \in Calls :
          (/\ tx[c] = "call"
           /\ ~payload[c].isStr
           /\ (tx'[c] # "call" \/ codes'[c] # codes[c]))
             => /\ tx'[c] = "raised"
                /\ err'[c] = "TypeError"
                /\ codes'[c] = codes[c]
                /\ pc'[c] = pc[c]]_vars

\* The poll of the loop was called with a dict and ended with TypeError,
\* nothing posted.
C23_Witness ==
    \E c \in Calls :
       /\ pc[c] = "poll"
       /\ tx[c] = "raised"
       /\ err[c] = "TypeError"
       /\ codes[c] = <<>>

\* C25: a download resolved by a response has its thread as soon as it is
\* resolved: while a call is in _manage_downloads, before each sleep and
\* each poll, the threads of its client are those of the downloads resolved
\* so far, in that order.
C25_StreamingDispatch ==
    \A c \in Calls :
       (pc[c] \in {"available", "requested", "sleep", "poll"} /\ tx[c] # "raised")
          => /\ Len(threads[clientOf[c]]) = Len(download_ids[c])
             /\ \A i \in 1..Len(download_ids[c]) :
                   LET w == workers[threads[clientOf[c]][i]]
                   IN  w.st # "done" => (w.call = c /\ w.url = download_ids[c][i])

\* One of two downloads is resolved and its thread already holds a slot while
\* the call is about to sleep.
C25_Witness ==
    \E c \in Calls :
       /\ pc[c] = "sleep"
       /\ download_ids[c] = <<1>>
       /\ Len(workers) = 1
       /\ workers[1].st = "holding"

\* C26: starting a thread does not wait for the gate: _run_download can run
\* whatever the counter of _sema is, also at 0.
C26_DispatchNotGated ==
    Len(workers) < scope.threads => \A c \in Calls : ENABLED Submit(c)

\* All slots are held and a further thread has been started and waits.
C26_Witness ==
    /\ sema = 0
    /\ Len(workers) > MAX_THREADS
    /\ workers[Len(workers)].st = "started"

\* C27: a poll of the loop that fails does not end the call: the call goes
\* on to sleep and poll again.
C27_PollErrorsRetried ==
    \A c \in Calls : pc[c] = "poll" => tx[c] # "raised"

C31_PointOrBox ==
    (/\ args.fn = "SearchParamsPayload"
     /\ \A f \in {"start_date", "end_date"} : args.input[f] = Absent
     /\ \A f \in {"longitude", "latitude", "bbox"} : args.input[f] \in {Absent, "Value"})
       => LET lon == args.input["longitude"] = "Value"
              lat == args.input["latitude"] = "Value"
              box == args.input["bbox"] = "Value"
          IN  /\ (lon /\ lat /\ ~box)
                    => /\ result.raised = None
                       /\ result.value["longitude"] = "Value"
                       /\ result.value["latitude"] = "Value"
              /\ (lon # lat) => result.raised = "ValidationError"
              /\ (box /\ (lon \/ lat)) => result.raised = "ValidationError"

\* C34: when the polling phase of a call is over, the distinct download ids
\* that got a thread are at least the requested count less the failed ones.
C34_DistinctTarget ==
    \A c \in Calls :
       (pc[c] = "join" /\ request_results[c].preparingDownloads)
          => Cardinality(Range(download_ids[c]))
                >= requested_download_count(c) - Len(request_results[c].failed)

\* C36: the _threads list of a client is empty whenever no download_scene
\* call is in progress on it, after a return and after an exception alike.
C36_NoLeftoverThreads ==
    \A a \in Clients :
       (\A c \in Calls :
           clientOf[c] = a => (pc[c] \in {"idle", "returned"} \/ tx[c] = "raised"))
          => threads[a] = <<>>

\* C35: every thread that was started takes a slot of _sema and ends, however
\* many threads there are and whichever calls started them, given that every
\* GET returns or raises: from some point on all the threads started have
\* ended (finitely many are started, and one that has ended stays so).
C35_WorkersTerminate ==
    <>[](\A w \in 1..Len(workers) : workers[w].st = "done")

\* More threads than slots were started and all of them have ended.
C35_Witness ==
    /\ Len(workers) > MAX_THREADS
    /\ \A w \in 1..Len(workers) : workers[w].st = "done"

\* C32: a login begun while logged in sends logout before its login
\* request; after a login that succeeded _loggedIn is true and the session
\* has the token of the response; after a logout that succeeded _loggedIn is
\* false and the session has no token; after a login that failed _loggedIn
\* is false.
C32_LoginLogout ==
    LET t == "main"
        succeeded == ended[t] = "returned"
        failed == ended[t] \notin {"no", "returned"}
    IN  /\ (call[t].fn = "login" /\ call[t].loggedIn)
              => \A i \in 1..Len(posted[t]) :
                    posted[t][i].endpoint = "login"
                       => (i = 2 /\ posted[t][1].endpoint = "logout")
        /\ (call[t].fn \in {"__init__", "login"} /\ succeeded)
              => (loggedIn /\ session \in Tokens /\ session = login_data[t])
        /\ (call[t].fn = "logout" /\ succeeded) => (~loggedIn /\ session = NoToken)
        /\ (call[t].fn \in {"__init__", "login"} /\ failed) => ~loggedIn

\* C33: when _reset_login has run for an expired timer, however it ended,
\* the client is logged in and a new timer is armed.
C33_RefreshPending ==
    (client = "ready" /\ call["timer"].fn = "_reset_login" /\ ended["timer"] # "no")
       => (loggedIn /\ session \in Tokens /\ logout_timer = "armed")

\* C37: every request the script's thread sends through a wrapper or for its
\* own logout, on a client it has constructed, carries an X-Auth-Token.
C37_TokenOnEveryRequest ==
    call["main"].fn \in {"request", "__del__"}
       => \A i \in 1..Len(posted["main"]) : posted["main"][i].token # NoToken

====
